---- MODULE Spec2Model ----
(***************************************************************************)
(* Rainfall-app: the two Streamlit scripts of the repository.              *)
(*                                                                         *)
(*   src/rainfallapp_up.py  the dashboard: preprocessing, the daily and    *)
(*                          events tables, the Tab 1 summaries kept in     *)
(*                          st.session_state, the Tab 2 threshold queries  *)
(*                          and the Tab 4 station analysis.                *)
(*   src/rainfall_app.py    the single-station event analyzer.             *)
(*                                                                         *)
(* A Streamlit script runs from top to bottom on every user interaction;   *)
(* one action of the model is one such run.  What survives a run is        *)
(* st.session_state and the state of the widgets; the page is rebuilt.     *)
(*                                                                         *)
(* Units: rainfall is a whole number of millimetres, a timestamp is the    *)
(* number of hours since the first day 00:00 of the (single) month the     *)
(* input lies in, so Year and Month are the same for every reading and a   *)
(* calendar date is identified by its day.  A ratio (Daily_Intensity,      *)
(* Average_Intensity) is kept as the pair <<numerator, denominator>>.      *)
(***************************************************************************)
EXTENDS Integers, Sequences, FiniteSets, TLC

(***************************************************************************)
(* Bounds of the model.                                                    *)
(***************************************************************************)
NumStations == 2    \* AWS_ID / station_id ranges over 1..NumStations
SegMaxRows == 4     \* segmentation specifications: rows of a file
SegMaxHour == 1     \*   hours 0..SegMaxHour of day 1
SegMaxRain == 1     \*   rainfall 0..SegMaxRain
DayMaxRows == 2     \* daily-table specification: rows of a file
DayMaxDay == 2      \*   days 1..DayMaxDay
DayMaxHour == 1     \*   hours 0..DayMaxHour
DayMaxRain == 2     \*   rainfall 0..DayMaxRain
AppMaxRows == 3     \* event analyzer specification: rows of a file
AppMaxHour == 2     \*   hours 0..AppMaxHour of day 1
AppMaxRain == 2     \*   rainfall 0..AppMaxRain
UiMaxRows == 2      \* dashboard specifications: rows of a file
UiMaxRain == 1      \*   rainfall 0..UiMaxRain
StationMaxRows == 3 \* station analysis specification: rows of a file
MaxThresh == 2      \* a threshold typed into a number_input: 0..MaxThresh
GuardMaxRows == 3   \* intensity specification: rows of a file
GuardMaxDay == 2    \*   days 1..GuardMaxDay
GuardMaxRain == 1   \*   rainfall 0..GuardMaxRain

(***************************************************************************)
(* Cells of the uploaded CSV, as pd.read_csv returns them.                 *)
(***************************************************************************)
Stations == 1..NumStations

\* A Date_&_Time cell "dd-mm-YYYY HH:MM" is kept as its day and hour; hour
\* BadHour stands for a cell that the format '%d-%m-%Y %H:%M' does not match.
BadHour == 24
DtCells(days, hours) == [day : days, hour : hours]

\* An Hourly__Rainfall_(mm) cell: a number, or text that is not a number.
NumRainCells(maxRain) == [num : {TRUE}, v : 0..maxRain]
TextRainCell == [num |-> FALSE, v |-> 0]

\* The metadata cells of a row (District, Mandal, Location, Circle,
\* Latitude, Longitude; fixed per station): all filled in, or one empty.
MetaCells == {"meta", "NaN"}

\* The rows a file is made of.
RowsOf(days, hours, rains, metas) ==
    [AWS_ID : Stations, meta : metas, dt : DtCells(days, hours), rain : rains]

NaT == -1

(***************************************************************************)
(* Helpers on sequences and sets.                                          *)
(***************************************************************************)
Range(s) == {s[i] : i \in DOMAIN s}

RECURSIVE SumSeq(_)
SumSeq(s) == IF s = <<>> THEN 0 ELSE s[1] + SumSeq(Tail(s))

MaxOf(S) == CHOOSE x \in S : \A y \in S : y <= x
MinOf(S) == CHOOSE x \in S : \A y \in S : x <= y

SeqUpTo(S, n) == UNION {[1..k -> S] : k \in 0..n}

(***************************************************************************)
(* rainfallapp_up.py, preprocessing (lines 134-140).                       *)
(***************************************************************************)
\* pd.to_datetime(..., format='%d-%m-%Y %H:%M', errors='coerce')
ParseDateTime(c) ==
    IF c.day \in 1..31 /\ c.hour \in 0..23
    THEN (c.day - 1) * 24 + c.hour
    ELSE NaT

\* df['DateTime'].dt.date
DateOf(t) == (t \div 24) + 1

\* pd.to_numeric(..., errors='coerce').fillna(0)
ToNumericFill0(c) == IF c.num THEN c.v ELSE 0

\* The frame with its RangeIndex (idx) and the DateTime column added.
WithDateTime(rows) ==
    [i \in 1..Len(rows) |->
        [idx |-> i, AWS_ID |-> rows[i].AWS_ID, meta |-> rows[i].meta,
         DateTime |-> ParseDateTime(rows[i].dt), cell |-> rows[i].rain]]

HasDateTime(r) == r.DateTime # NaT

\* dropna(subset=['DateTime']), then Date and the numeric Hourly_Rain.
Preprocess(rows) ==
    LET kept == SelectSeq(WithDateTime(rows), HasDateTime)
    IN  [i \in 1..Len(kept) |->
            [idx |-> kept[i].idx, AWS_ID |-> kept[i].AWS_ID,
             meta |-> kept[i].meta, DateTime |-> kept[i].DateTime,
             Date |-> DateOf(kept[i].DateTime),
             Hourly_Rain |-> ToNumericFill0(kept[i].cell)]]

(***************************************************************************)
(* groupby: a row whose key holds a NaN is in no group (dropna=True, the   *)
(* default); the groups come out in key order (sort=True, the default).    *)
(***************************************************************************)
KeyNotNaN(r) == r.meta # "NaN"

RECURSIVE SortKeys(_, _)
\* The keys of S, tuples of numbers of one length n, in lexicographic order.
KeyLess(a, b, n) ==
    \E k \in 1..n : a[k] < b[k] /\ \A j \in 1..(k - 1) : a[j] = b[j]
SortKeys(S, n) ==
    IF S = {} THEN <<>>
    ELSE LET m == CHOOSE a \in S : \A b \in S \ {a} : KeyLess(a, b, n)
         IN  <<m>> \o SortKeys(S \ {m}, n)

\* The column `name` of frame f.
Column(f, name) == [i \in 1..Len(f) |-> f[i][name]]

(***************************************************************************)
(* The daily table (lines 142-153).                                        *)
(***************************************************************************)
HoursRained(x) == Cardinality({i \in DOMAIN x : x[i] > 0})

\* The ratio of lines 151-153 without its guard.
UnguardedIntensity(row) == <<row.Daily_Rainfall, row.Hours_Rained>>

\* Lines 151-153
DailyIntensity(row) ==
    IF row.Hours_Rained > 0
    THEN <<row.Daily_Rainfall, row.Hours_Rained>>
    ELSE <<0, 1>>

DailyRow(df, key) ==
    LET InGroup(r) == KeyNotNaN(r) /\ r.AWS_ID = key[1] /\ r.Date = key[2]
        x == Column(SelectSeq(df, InGroup), "Hourly_Rain")
        agg == [AWS_ID |-> key[1], meta |-> "meta", Date |-> key[2],
                Daily_Rainfall |-> SumSeq(x),
                Max_Hourly_Rain |-> MaxOf(Range(x)),
                Hours_Rained |-> HoursRained(x)]
    IN  [AWS_ID |-> agg.AWS_ID, meta |-> agg.meta, Date |-> agg.Date,
         Daily_Rainfall |-> agg.Daily_Rainfall,
         Max_Hourly_Rain |-> agg.Max_Hourly_Rain,
         Hours_Rained |-> agg.Hours_Rained,
         Daily_Intensity |-> DailyIntensity(agg)]

DailyKeys(df) ==
    {<<df[i].AWS_ID, df[i].Date>> : i \in {j \in DOMAIN df : KeyNotNaN(df[j])}}

Daily(df) ==
    LET keys == SortKeys(DailyKeys(df), 2)
    IN  [k \in 1..Len(keys) |-> DailyRow(df, keys[k])]

(***************************************************************************)
(* Event segmentation (lines 155-158).                                     *)
(***************************************************************************)
\* Row a sorts before or with row b under ['AWS_ID', 'DateTime'].
SortKeyLE(a, b) ==
    \/ a.AWS_ID < b.AWS_ID
    \/ a.AWS_ID = b.AWS_ID /\ a.DateTime <= b.DateTime

\* r put into the sorted s after every row it does not sort before.
InsertSorted(s, r) ==
    LET n == Cardinality({i \in DOMAIN s : SortKeyLE(s[i], r)})
    IN  SubSeq(s, 1, n) \o <<r>> \o SubSeq(s, n + 1, Len(s))

RECURSIVE SortValues(_)
\* df.sort_values(['AWS_ID', 'DateTime']): rows of equal keys keep their order.
SortValues(f) ==
    IF f = <<>> THEN <<>>
    ELSE InsertSorted(SortValues(SubSeq(f, 1, Len(f) - 1)), f[Len(f)])

RainFlag(r) == IF r.Hourly_Rain > 0 THEN 1 ELSE 0

\* (RainFlag.diff().fillna(0) == 1).astype(int), over the whole sorted table.
EventStart(f, i) ==
    LET diff == IF i = 1 THEN 0 ELSE RainFlag(f[i]) - RainFlag(f[i - 1])
    IN  IF diff = 1 THEN 1 ELSE 0

RECURSIVE CumSumEventStart(_, _)
CumSumEventStart(f, i) ==
    IF i = 0 THEN 0 ELSE CumSumEventStart(f, i - 1) + EventStart(f, i)

EventID(f, i) == CumSumEventStart(f, i) * RainFlag(f[i])

DfSorted(df) ==
    LET f == SortValues(df)
    IN  [i \in 1..Len(f) |->
            [idx |-> f[i].idx, AWS_ID |-> f[i].AWS_ID, meta |-> f[i].meta,
             DateTime |-> f[i].DateTime, Date |-> f[i].Date,
             Hourly_Rain |-> f[i].Hourly_Rain,
             RainFlag |-> RainFlag(f[i]),
             EventStart |-> EventStart(f, i),
             EventID |-> EventID(f, i)]]

(***************************************************************************)
(* The events table (lines 160-168).                                       *)
(***************************************************************************)
InEvent(r) == r.EventID > 0

\* The rows of the sorted table that the groupby puts in the group `key`.
EventGroup(fs, key) ==
    LET InGroup(r) ==
            /\ InEvent(r) /\ KeyNotNaN(r)
            /\ r.AWS_ID = key[1] /\ r.EventID = key[2]
    IN  SelectSeq(fs, InGroup)

AverageIntensity(row) == <<row.Total_Rain, row.Duration_hrs>>

EventRow(fs, key) ==
    LET g == EventGroup(fs, key)
        agg == [AWS_ID |-> key[1], meta |-> "meta", EventID |-> key[2],
                Start |-> MinOf(Range(Column(g, "DateTime"))),
                End |-> MaxOf(Range(Column(g, "DateTime"))),
                Duration_hrs |-> Len(Column(g, "DateTime")),
                Total_Rain |-> SumSeq(Column(g, "Hourly_Rain")),
                Max_Hourly |-> MaxOf(Range(Column(g, "Hourly_Rain")))]
    IN  [AWS_ID |-> agg.AWS_ID, meta |-> agg.meta, EventID |-> agg.EventID,
         Start |-> agg.Start, End |-> agg.End,
         Duration_hrs |-> agg.Duration_hrs, Total_Rain |-> agg.Total_Rain,
         Max_Hourly |-> agg.Max_Hourly,
         Average_Intensity |-> AverageIntensity(agg)]

EventKeys(fs) ==
    {<<fs[i].AWS_ID, fs[i].EventID>> :
        i \in {j \in DOMAIN fs : InEvent(fs[j]) /\ KeyNotNaN(fs[j])}}

Events(fs) ==
    LET keys == SortKeys(EventKeys(fs), 2)
    IN  [k \in 1..Len(keys) |-> EventRow(fs, keys[k])]

(***************************************************************************)
(* The dashboard's state.                                                  *)
(***************************************************************************)
VARIABLES
    uploaded_file,   \* the file in the uploader: <<>> (None) or <<rows>>
    columns,         \* the columns that file has ({}: no file)
    pending,         \* the uploader holds a file the script has not run on yet
    df,              \* the preprocessed frame of the last run
    daily,           \* the daily table of the last run
    df_sorted,       \* the sorted frame with RainFlag, EventStart, EventID
    events,          \* the events table of the last run
    session_state,   \* st.session_state: a key holds <<>> (absent) or <<value>>
    summary_option,  \* Tab 1 radio
    station_select,  \* Tab 4 selectbox (0: no station to select)
    analysis_choice, \* Tab 4 radio
    pressed,         \* the st.button that returned True in the last run
    pressed_value,   \* what the number_input of that button returned
    page             \* what the last run put on the page

dash_vars == <<uploaded_file, columns, pending, df, daily, df_sorted, events,
               session_state, summary_option, station_select,
               analysis_choice, pressed, pressed_value, page>>

\* The event analyzer's state (rainfall_app.py, a program of its own).
VARIABLES
    app_uploaded_file,  \* the file in the uploader: <<>> (None) or <<rows>>
    app_columns,        \* the columns that file has ({}: no file)
    app_outcome,        \* how the last run ended ("": no run yet)
    app_station,        \* the selectbox (0: nothing selected)
    app_threshold,      \* the threshold slider, in tenths of a millimetre
    app_df_station,     \* df_station with rain_event and event_id
    app_events,         \* the events table
    app_ran             \* the script has run on the file

app_vars == <<app_uploaded_file, app_columns, app_outcome, app_station,
              app_threshold, app_df_station,
              app_events, app_ran>>

vars == <<dash_vars, app_vars>>

NoFile == <<>>

SummaryOptions == {"Daily Rainfall Summary", "Rain Events Summary"}
AnalysisChoices == {"Rainy Hours per Day", "Rainy Days per Month and Season",
                    "High-Intensity and Maximum Rainfall Events",
                    "Monthly Distribution of Event Intensities"}
Buttons == {"Show Daily Summary", "Show Event Summary", "Run Hourly Query",
            "Run Daily Query", "Run Event Duration Query"}
NoButton == "none"

EmptySession ==
    [filtered_daily |-> <<>>, daily_threshold |-> <<>>,
     filtered_events |-> <<>>, event_thresh |-> <<>>]

\* The page of a run without a file: only the st.info of line 454.
InfoPage ==
    [info |-> TRUE, exception |-> FALSE, raised |-> "",
     shown_daily |-> <<>>, shown_events |-> <<>>,
     hourly_q |-> <<>>, daily_q |-> <<>>, duration_q |-> <<>>,
     intense |-> <<>>]

\* The page of a run that an uncaught exception ended before the tabs.
ExceptionPage ==
    [InfoPage EXCEPT !.info = FALSE, !.exception = TRUE,
                     !.raised = "ValueError"]

\* The page of a run that a KeyError ended: df has no such column.
KeyErrorPage == [ExceptionPage EXCEPT !.raised = "KeyError"]

\* The columns of a complete file, named as lines 113 and 134 leave them.
MetaCols == {"AWS_ID", "District", "Mandal", "Location", "Circle",
             "Latitude", "Longitude"}
DashColumns == MetaCols \cup {"Date_&_Time", "Hourly_Rain"}

\* No column is looked up that the file does not have.
NoKeyError(cols) == FALSE

\* The lookups of lines 112-149 on a frame with the columns cols: line 125
\* reads AWS_ID when the file has Latitude and Longitude, line 135 reads
\* Date_&_Time, line 140 Hourly_Rain, and line 145 groups by meta_cols.
DashKeyError(cols) ==
    \/ {"Latitude", "Longitude"} \subseteq cols /\ "AWS_ID" \notin cols
    \/ "Date_&_Time" \notin cols
    \/ "Hourly_Rain" \notin cols
    \/ ~(MetaCols \subseteq cols)

\* The comparison of a threshold query with > in the place of >=.
StrictlyAbove(value, threshold) == value > threshold

\* table[column] >= threshold, on one row
AtLeast(value, threshold) == value >= threshold

\* table[table[column] >= threshold]
FilterGE(table, column, threshold) ==
    LET Keep(r) == AtLeast(r[column], threshold) IN SelectSeq(table, Keep)

\* What a query writes: the threshold, len(result) and the result.
Shown(threshold, table) ==
    <<[threshold |-> threshold, count |-> Len(table), table |-> table]>>

\* Tab 1, lines 190-214: the buttons store into st.session_state.
Tab1Session(ss, option, button, t, dailyT, eventsT) ==
    IF option = "Daily Rainfall Summary" /\ button = "Show Daily Summary"
    THEN [ss EXCEPT !.filtered_daily =
                        <<FilterGE(dailyT, "Daily_Rainfall", t)>>,
                    !.daily_threshold = <<t>>]
    ELSE IF option = "Rain Events Summary" /\ button = "Show Event Summary"
    THEN [ss EXCEPT !.filtered_events = <<FilterGE(eventsT, "Total_Rain", t)>>,
                    !.event_thresh = <<t>>]
    ELSE ss

\* Tab 1, lines 199-202 and 211-214: what is shown comes from st.session_state.
Tab1Daily(ss, option) ==
    IF option = "Daily Rainfall Summary" /\ ss.filtered_daily # <<>>
    THEN <<[threshold |-> ss.daily_threshold[1],
            count |-> Len(ss.filtered_daily[1]),
            table |-> ss.filtered_daily[1]]>>
    ELSE <<>>

Tab1Events(ss, option) ==
    IF option = "Rain Events Summary" /\ ss.filtered_events # <<>>
    THEN <<[threshold |-> ss.event_thresh[1],
            count |-> Len(ss.filtered_events[1]),
            table |-> ss.filtered_events[1]]>>
    ELSE <<>>

\* Tab 2, lines 268-312.
HourlyQuery(button, t, dfT) ==
    IF button = "Run Hourly Query"
    THEN Shown(t, FilterGE(dfT, "Hourly_Rain", t)) ELSE <<>>

DailyQuery(button, t, dailyT) ==
    IF button = "Run Daily Query"
    THEN Shown(t, FilterGE(dailyT, "Daily_Rainfall", t)) ELSE <<>>

EventDurationQuery(button, t, eventsT) ==
    IF button = "Run Event Duration Query"
    THEN Shown(t, FilterGE(eventsT, "Duration_hrs", t)) ELSE <<>>

\* Tab 4, line 363: the selectbox over sorted(df["AWS_ID"].unique()) keeps its
\* value while it is an option and falls back to the first option.
StationOptions(dfT) == {dfT[i].AWS_ID : i \in DOMAIN dfT}

StationSelect(sel, dfT) ==
    IF sel \in StationOptions(dfT) THEN sel
    ELSE IF StationOptions(dfT) = {} THEN 0
    ELSE MinOf(StationOptions(dfT))

\* Tab 4, lines 384 and 427-435.
IntenseCut == 5

IntenseEvents(eventsT, sel) ==
    LET OfStation(r) == r.AWS_ID = sel
        event_station == SelectSeq(eventsT, OfStation)
        Intense(r) ==
            r.Average_Intensity[1] > IntenseCut * r.Average_Intensity[2]
    IN  SelectSeq(event_station, Intense)

Tab4Intense(choice, eventsT, sel) ==
    IF choice = "High-Intensity and Maximum Rainfall Events"
    THEN LET t == IntenseEvents(eventsT, sel)
         IN  <<[count |-> Len(t), table |-> t]>>
    ELSE <<>>

\* Lines 151-153: on a daily table without rows, daily.apply(..., axis=1)
\* returns a copy of the (empty, many-column) frame, and assigning it to the
\* one column Daily_Intensity raises ValueError.
DailyApplyRaises(dailyT) == dailyT = <<>>

\* The widgets of the main body as a run that does not draw them leaves them.
WidgetsReset ==
    /\ summary_option' = "Daily Rainfall Summary"
    /\ station_select' = 0
    /\ analysis_choice' = "Rainy Hours per Day"
    /\ pressed' = NoButton
    /\ pressed_value' = 0

\* One run of the script (lines 109-450) on the file `rows` with the columns
\* columns', in which the widgets return option, sel, choice, the button
\* `button` was pressed
\* (NoButton: none) and the number_input of that button returns t.
Script(rows, option, sel, choice, button, t) ==
    /\ UNCHANGED app_vars
    /\ df' = IF DashKeyError(columns') THEN <<>> ELSE Preprocess(rows)
    /\ daily' = Daily(df')
    /\ IF DashKeyError(columns') \/ DailyApplyRaises(daily')
       THEN /\ df_sorted' = <<>>
            /\ events' = <<>>
            /\ WidgetsReset
            /\ page' = IF DashKeyError(columns') THEN KeyErrorPage
                                                ELSE ExceptionPage
            /\ UNCHANGED session_state
       ELSE /\ df_sorted' = DfSorted(df')
            /\ events' = Events(df_sorted')
            /\ summary_option' = option
            /\ station_select' = StationSelect(sel, df')
            /\ analysis_choice' = choice
            /\ pressed' = button
            /\ pressed_value' = t
            /\ session_state' =
                  Tab1Session(session_state, option, button, t, daily',
                              events')
            /\ page' =
                  [info |-> FALSE, exception |-> FALSE, raised |-> "",
                   shown_daily |-> Tab1Daily(session_state', option),
                   shown_events |-> Tab1Events(session_state', option),
                   hourly_q |-> HourlyQuery(button, t, df'),
                   daily_q |-> DailyQuery(button, t, daily'),
                   duration_q |-> EventDurationQuery(button, t, events'),
                   intense |->
                      Tab4Intense(choice, events', station_select')]

\* A file is in the uploader and the last run drew the tabs.
Ready == uploaded_file # NoFile /\ ~pending /\ ~page.exception

Interact(option, sel, choice, button, t) ==
    /\ Ready
    /\ UNCHANGED <<uploaded_file, columns, pending>>
    /\ Script(uploaded_file[1], option, sel, choice, button, t)

(***************************************************************************)
(* The dashboard's runs, one per user interaction.                         *)
(***************************************************************************)
\* The run on a file that has just been put in the uploader.
Rerun ==
    /\ pending /\ uploaded_file # NoFile
    /\ pending' = FALSE
    /\ UNCHANGED <<uploaded_file, columns>>
    /\ Script(uploaded_file[1], summary_option, station_select,
              analysis_choice, NoButton, 0)

\* Another file, with the columns cols, is put in the uploader and the
\* script runs on it.
UploadFile(rows, cols) ==
    /\ ~pending
    /\ uploaded_file' = <<rows>>
    /\ columns' = cols
    /\ pending' = FALSE
    /\ Script(rows, summary_option, station_select, analysis_choice,
              NoButton, 0)

\* The same, for a file that has every column.
Upload(rows) == UploadFile(rows, DashColumns)

\* The file is taken out of the uploader: the run takes the else branch of
\* line 453, and the widgets of the main body, not drawn, lose their state.
RemoveFile ==
    /\ uploaded_file # NoFile /\ ~pending
    /\ uploaded_file' = NoFile
    /\ columns' = {}
    /\ df' = <<>> /\ daily' = <<>> /\ df_sorted' = <<>> /\ events' = <<>>
    /\ WidgetsReset
    /\ page' = InfoPage
    /\ UNCHANGED <<pending, session_state>>
    /\ UNCHANGED app_vars

SelectSummary(option) ==
    /\ option # summary_option
    /\ Interact(option, station_select, analysis_choice, NoButton, 0)

PressShowDaily(t) ==
    /\ summary_option = "Daily Rainfall Summary"
    /\ Interact(summary_option, station_select, analysis_choice,
                "Show Daily Summary", t)

PressShowEvents(t) ==
    /\ summary_option = "Rain Events Summary"
    /\ Interact(summary_option, station_select, analysis_choice,
                "Show Event Summary", t)

RunHourlyQuery(t) ==
    Interact(summary_option, station_select, analysis_choice,
             "Run Hourly Query", t)

RunDailyQuery(t) ==
    Interact(summary_option, station_select, analysis_choice,
             "Run Daily Query", t)

RunEventDurationQuery(t) ==
    Interact(summary_option, station_select, analysis_choice,
             "Run Event Duration Query", t)

SelectStation(sel) ==
    /\ sel \in StationOptions(df) /\ sel # station_select
    /\ Interact(summary_option, sel, analysis_choice, NoButton, 0)

SelectAnalysis(choice) ==
    /\ choice # analysis_choice
    /\ Interact(summary_option, station_select, choice, NoButton, 0)

(***************************************************************************)
(* rainfall_app.py, the event analyzer.  A row of its CSV has the columns  *)
(* station_id, date, hour, rainfall.  The threshold slider (0.1 to 10.0 in *)
(* steps of 0.1) is kept in tenths of a millimetre.                        *)
(***************************************************************************)
SliderMin == 1
SliderDefault == 10
AppThresholds == {SliderMin, SliderDefault}

\* A rainfall cell is a number or text that is not one, as in the
\* dashboard's file; an hour cell BadHour makes no datetime.
AppRowsOf(hours, rains) ==
    [station_id : Stations, date : {1}, hour : hours, rainfall : rains]

AppColumns == {"station_id", "date", "hour", "rainfall"}

\* Line 22: the check of the date and hour columns.
HasDateAndHour(cols) == "date" \in cols /\ "hour" \in cols

\* Line 15: a rainfall column with a cell that is not a number is read as a
\* column of strings (dtype object).
RainfallIsText(rows) == \E i \in DOMAIN rows : ~rows[i].rainfall.num

NoneId == -1

\* Lines 22-24: the datetime column, rows without one dropped.
AppPreprocess(rows) ==
    LET f == [i \in 1..Len(rows) |->
                [idx |-> i, station_id |-> rows[i].station_id,
                 datetime |-> ParseDateTime([day |-> rows[i].date,
                                             hour |-> rows[i].hour]),
                 rainfall |-> rows[i].rainfall.v]]
        HasDatetime(r) == r.datetime # NaT
    IN  SelectSeq(f, HasDatetime)

\* Line 30: df['station_id'].unique()
AppStations(f) == {f[i].station_id : i \in DOMAIN f}

\* Lines 33-34: sort_values('datetime') sorts with quicksort, which leaves the
\* order of rows of equal datetime open: every sorted order of the rows.
AppSortedOrders(f) ==
    {[i \in 1..Len(f) |-> f[p[i]]] :
        p \in {q \in [1..Len(f) -> 1..Len(f)] :
                  /\ \A i, j \in 1..Len(f) : q[i] = q[j] => i = j
                  /\ \A i \in 1..(Len(f) - 1) :
                        f[q[i]].datetime <= f[q[i + 1]].datetime}}

\* Line 42
RainEvent(r, threshold) == IF r.rainfall * 10 > threshold THEN 1 ELSE 0

\* Line 43: (rain_event.diff().fillna(0) == 1).cumsum()
RECURSIVE AppCumSum(_, _, _)
AppCumSum(f, threshold, i) ==
    IF i = 0 THEN 0
    ELSE AppCumSum(f, threshold, i - 1)
         + (IF i > 1 /\ RainEvent(f[i], threshold)
                         - RainEvent(f[i - 1], threshold) = 1
            THEN 1 ELSE 0)

\* Line 44: the event_id of a dry row is None.
AppEventId(f, threshold, i) ==
    IF RainEvent(f[i], threshold) = 0 THEN NoneId
    ELSE AppCumSum(f, threshold, i)

AppDfStation(f, threshold) ==
    [i \in 1..Len(f) |->
        [idx |-> f[i].idx, station_id |-> f[i].station_id,
         datetime |-> f[i].datetime, rainfall |-> f[i].rainfall,
         rain_event |-> RainEvent(f[i], threshold),
         event_id |-> AppEventId(f, threshold, i)]]

\* Line 54: (x.max() - x.min()).total_seconds() / 3600 + 1
DurationHours(x) == (MaxOf(x) - MinOf(x)) + 1

\* Lines 47-57: the groups in event_id order, the event_id column dropped.
AppEvents(fs) ==
    LET ids == {fs[i].event_id : i \in DOMAIN fs} \ {NoneId}
        keys == SortKeys({<<k>> : k \in ids}, 1)
        Group(k) == LET In(r) == r.event_id = k IN SelectSeq(fs, In)
    IN  [n \in 1..Len(keys) |->
            LET g == Group(keys[n][1])
            IN  [start_time |-> MinOf(Range(Column(g, "datetime"))),
                 end_time |-> MaxOf(Range(Column(g, "datetime"))),
                 total_rainfall |-> SumSeq(Column(g, "rainfall")),
                 duration_hours |->
                    DurationHours(Range(Column(g, "datetime")))]]

\* A run that ends before the events table: st.error and st.stop of lines
\* 26-27, or an uncaught exception.
AppStopped(outcome, station, threshold) ==
    /\ app_outcome' = outcome
    /\ app_df_station' = <<>>
    /\ app_events' = <<>>
    /\ app_station' = station
    /\ app_threshold' = threshold

\* One run of the script on the uploaded file, the selectbox returning
\* `station` and the slider `threshold` (when the run gets to draw them).
AppRun(station, threshold) ==
    /\ app_uploaded_file # NoFile
    /\ LET rows == app_uploaded_file[1]
           d == AppPreprocess(rows)
           OfStation(r) == r.station_id = station
           Drawn == station \in AppStations(d) \cup
                               (IF AppStations(d) = {} THEN {0} ELSE {})
           NotDrawn == station = 0 /\ threshold = SliderDefault
       IN  IF ~HasDateAndHour(app_columns)
           THEN \* lines 25-27
                NotDrawn /\ AppStopped("st.error", 0, SliderDefault)
           ELSE IF "station_id" \notin app_columns
           THEN \* line 30: df['station_id']
                NotDrawn /\ AppStopped("KeyError", 0, SliderDefault)
           ELSE IF "rainfall" \notin app_columns
           THEN \* line 42: df_station['rainfall']
                Drawn /\ AppStopped("KeyError", station, threshold)
           ELSE IF RainfallIsText(rows) /\ SelectSeq(d, OfStation) # <<>>
           THEN \* line 42: a string compared with the threshold
                Drawn /\ AppStopped("TypeError", station, threshold)
           ELSE /\ Drawn
                /\ \E sorted \in AppSortedOrders(SelectSeq(d, OfStation)) :
                      app_df_station' = AppDfStation(sorted, threshold)
                /\ app_events' = AppEvents(app_df_station')
                /\ app_outcome' = "events"
                /\ app_station' = station
                /\ app_threshold' = threshold
    /\ app_ran' = TRUE
    /\ UNCHANGED <<app_uploaded_file, app_columns>>
    /\ UNCHANGED dash_vars

(***************************************************************************)
(* Specifications.                                                         *)
(***************************************************************************)
DashNoRun ==
    /\ df = <<>> /\ daily = <<>> /\ df_sorted = <<>> /\ events = <<>>
    /\ session_state = EmptySession
    /\ summary_option = "Daily Rainfall Summary"
    /\ station_select = 0
    /\ analysis_choice = "Rainy Hours per Day"
    /\ pressed = NoButton
    /\ pressed_value = 0
    /\ page = InfoPage

AppNoFile ==
    /\ app_uploaded_file = NoFile
    /\ app_columns = {}
    /\ app_outcome = ""
    /\ app_station = 0
    /\ app_threshold = SliderDefault
    /\ app_df_station = <<>>
    /\ app_events = <<>>
    /\ app_ran = FALSE

\* The dashboard has started and a file has just been put in its uploader.
InitDash(files) ==
    /\ uploaded_file \in {<<f>> : f \in files}
    /\ columns = DashColumns
    /\ pending = TRUE
    /\ DashNoRun
    /\ AppNoFile

\* Segmentation: files with complete metadata and well-formed cells.
SegFiles ==
    SeqUpTo(RowsOf({1}, 0..SegMaxHour, NumRainCells(SegMaxRain), {"meta"}),
            SegMaxRows)

InitSeg == InitDash(SegFiles)
NextSeg == Rerun
SpecSeg == InitSeg /\ [][NextSeg]_vars

\* The event analyzer has started and a file has been put in its uploader.
AppFiles ==
    SeqUpTo(AppRowsOf(0..AppMaxHour, NumRainCells(AppMaxRain)), AppMaxRows)

\* The analyzer has started and a file of `files`, with columns of
\* `schemas`, is in its uploader; the dashboard is not in use.
InitAnalyzer(files, schemas) ==
    /\ uploaded_file = NoFile
    /\ columns = {}
    /\ pending = FALSE
    /\ DashNoRun
    /\ app_uploaded_file \in {<<f>> : f \in files}
    /\ app_columns \in schemas
    /\ app_outcome = ""
    /\ app_station = 0
    /\ app_threshold = SliderDefault
    /\ app_df_station = <<>>
    /\ app_events = <<>>
    /\ app_ran = FALSE

InitApp == InitAnalyzer(AppFiles, {AppColumns})

NextApp ==
    \E station \in Stations \cup {0}, threshold \in AppThresholds :
       AppRun(station, threshold)

SpecApp == InitApp /\ [][NextApp]_vars

\* The daily table: files whose cells may be malformed or empty.
DayFiles ==
    SeqUpTo(RowsOf(1..DayMaxDay, (0..DayMaxHour) \cup {BadHour},
                   NumRainCells(DayMaxRain) \cup {TextRainCell}, MetaCells),
            DayMaxRows)

InitDay == InitDash(DayFiles)
NextDay == Rerun
SpecDay == InitDay /\ [][NextDay]_vars

\* The dashboard's specifications: hourly files, the i-th row a reading of
\* hour i - 1 of day 1.
HourlyRow(i, c) ==
    [AWS_ID |-> c[1], meta |-> "meta", dt |-> [day |-> 1, hour |-> i - 1],
     rain |-> [num |-> TRUE, v |-> c[2]]]

HourlyFiles(maxRows, stations, rains) ==
    {[i \in DOMAIN r |-> HourlyRow(i, r[i])] :
        r \in SeqUpTo(stations \X rains, maxRows)}

\* The hourly series of one station.
UiFiles == HourlyFiles(UiMaxRows, {1}, 0..UiMaxRain)
Thresholds == 0..MaxThresh

\* The state after the dashboard has started: no file in the uploader.
Init ==
    /\ uploaded_file = NoFile
    /\ columns = {}
    /\ pending = FALSE
    /\ DashNoRun
    /\ AppNoFile

\* Tab 1 over a session in which files come and go.
Next ==
    \/ \E rows \in UiFiles : Upload(rows)
    \/ RemoveFile
    \/ \E option \in SummaryOptions : SelectSummary(option)
    \/ \E t \in Thresholds : PressShowDaily(t)
    \/ \E t \in Thresholds : PressShowEvents(t)

Spec == Init /\ [][Next]_vars

\* The threshold queries of Tab 1 and Tab 2 on one uploaded file.
InitQuery == InitDash(UiFiles)

NextQuery ==
    \/ Rerun
    \/ \E option \in SummaryOptions : SelectSummary(option)
    \/ \E t \in Thresholds : PressShowDaily(t)
    \/ \E t \in Thresholds : PressShowEvents(t)
    \/ \E t \in Thresholds : RunHourlyQuery(t)
    \/ \E t \in Thresholds : RunDailyQuery(t)
    \/ \E t \in Thresholds : RunEventDurationQuery(t)

SpecQuery == InitQuery /\ [][NextQuery]_vars

\* Tab 4 on one uploaded file: readings of several stations, with rainfall
\* around the intensity cut.
StationFiles ==
    HourlyFiles(StationMaxRows, Stations,
                {0} \cup ((IntenseCut - 1)..(IntenseCut + 1)))

InitStation == InitDash(StationFiles)

NextStation ==
    \/ Rerun
    \/ \E sel \in Stations : SelectStation(sel)
    \/ \E choice \in AnalysisChoices : SelectAnalysis(choice)

SpecStation == InitStation /\ [][NextStation]_vars

\* Files whose header lacks columns: complete, one column missing, or both
\* the station and the timestamp missing.
DashSchemas ==
    {DashColumns} \cup {DashColumns \ {c} : c \in DashColumns}
                  \cup {DashColumns \ {"AWS_ID", "Date_&_Time"}}
AppSchemas ==
    {AppColumns} \cup {AppColumns \ {c} : c \in AppColumns}
                 \cup {AppColumns \ {"station_id", "date", "hour"}}

SchemaAppFiles ==
    SeqUpTo(AppRowsOf({0}, NumRainCells(UiMaxRain)), UiMaxRows)

\* Either program on files of any of these schemas.  In the dashboard the
\* file is replaced by one with the same rows under another header, after
\* summaries of the earlier file may have been stored.
InitSchema ==
    \/ InitDash(UiFiles)
    \/ InitAnalyzer(SchemaAppFiles, AppSchemas)

NextSchema ==
    \/ Rerun
    \/ \E cols \in DashSchemas :
          uploaded_file # NoFile /\ UploadFile(uploaded_file[1], cols)
    \/ \E option \in SummaryOptions : SelectSummary(option)
    \/ \E t \in Thresholds : PressShowDaily(t)
    \/ \E t \in Thresholds : PressShowEvents(t)
    \/ \E station \in Stations \cup {0}, threshold \in AppThresholds :
          AppRun(station, threshold)

SpecSchema == InitSchema /\ [][NextSchema]_vars

\* Either program on a complete header and rows whose cells may be
\* malformed: a timestamp that does not parse, a rainfall that is no number.
RowAppFiles ==
    SeqUpTo(AppRowsOf((0..DayMaxHour) \cup {BadHour},
                      NumRainCells(DayMaxRain) \cup {TextRainCell}),
            DayMaxRows)

InitRows ==
    \/ InitAnalyzer(RowAppFiles, {AppColumns})
    \/ InitDash(DayFiles)

NextRows ==
    \/ Rerun
    \/ \E station \in Stations \cup {0}, threshold \in AppThresholds :
          AppRun(station, threshold)

SpecRows == InitRows /\ [][NextRows]_vars

\* The intensities: the readings of one station at 00:00 of some days, the
\* rainfall a number or text, in any order and number.
GuardFiles ==
    SeqUpTo([AWS_ID : {1}, meta : {"meta"},
             dt : DtCells(1..GuardMaxDay, {0}),
             rain : NumRainCells(GuardMaxRain) \cup {TextRainCell}],
            GuardMaxRows)

InitGuard == InitDash(GuardFiles)
NextGuard == Rerun
SpecGuard == InitGuard /\ [][NextGuard]_vars

(***************************************************************************)
(* Vocabulary of the claims about the dashboard's events table.            *)
(***************************************************************************)
\* The script has run to its end on the file in the uploader.
Done == uploaded_file # NoFile /\ ~pending /\ ~page.exception

\* The samples of station s: the index labels of its rows in df.
SamplesOf(s) == {df[i].idx : i \in {j \in DOMAIN df : df[j].AWS_ID = s}}
WetSamplesOf(s) ==
    {df[i].idx : i \in {j \in DOMAIN df :
                           df[j].AWS_ID = s /\ df[j].Hourly_Rain > 0}}

\* The member samples of the events row e: the rows of its group.
MembersOf(fs, e) ==
    LET g == EventGroup(fs, <<e.AWS_ID, e.EventID>>)
    IN  {g[i].idx : i \in DOMAIN g}

EventRowsOf(s) == {k \in DOMAIN events : events[k].AWS_ID = s}

\* Positions i..j of the sorted table are a maximal wet run of one station.
IsMaximalRun(fs, i, j) ==
    /\ 1 <= i /\ i <= j /\ j <= Len(fs)
    /\ \A k \in i..j : fs[k].AWS_ID = fs[i].AWS_ID /\ fs[k].Hourly_Rain > 0
    /\ i = 1 \/ fs[i - 1].AWS_ID # fs[i].AWS_ID \/ fs[i - 1].Hourly_Rain = 0
    /\ j = Len(fs) \/ fs[j + 1].AWS_ID # fs[i].AWS_ID
          \/ fs[j + 1].Hourly_Rain = 0

\* The number, within its station, of the wet run that position i lies in.
RunNumber(fs, i) ==
    Cardinality({k \in 1..i :
        /\ fs[k].AWS_ID = fs[i].AWS_ID /\ fs[k].Hourly_Rain > 0
        /\ k = 1 \/ fs[k - 1].AWS_ID # fs[k].AWS_ID
              \/ fs[k - 1].Hourly_Rain = 0})

\* C1: for every station the member samples of the rows of the events table
\* are together exactly the station's samples with rainfall > 0, and no
\* sample is a member of two rows (a dry sample of none).
C1_SegmentationComplete ==
    Done =>
      \A s \in Stations :
        /\ UNION {MembersOf(df_sorted, events[k]) : k \in EventRowsOf(s)}
              = WetSamplesOf(s)
        /\ \A k1, k2 \in EventRowsOf(s) :
              k1 # k2 => MembersOf(df_sorted, events[k1])
                           \cap MembersOf(df_sorted, events[k2]) = {}

\* C2: the k-th maximal wet run of a station's time-ordered series carries
\* event id k; a series that begins wet starts event 1 at its first sample.
C2_EventIdsPerStationFromOne ==
    Done =>
      \A i \in DOMAIN df_sorted :
        df_sorted[i].Hourly_Rain > 0
          => df_sorted[i].EventID = RunNumber(df_sorted, i)

\* What C3 compares of an events row: its members, start, end, duration
\* and total rain.
EventFacts(fs, ev, s) ==
    {[members |-> MembersOf(fs, ev[k]), Start |-> ev[k].Start,
      End |-> ev[k].End, Duration_hrs |-> ev[k].Duration_hrs,
      Total_Rain |-> ev[k].Total_Rain] :
        k \in {n \in DOMAIN ev : ev[n].AWS_ID = s}}

\* The input with the readings of every station but s removed.
OnlyStation(f, s) == LET Of(r) == r.AWS_ID = s IN SelectSeq(f, Of)

\* C3: the events of a station are those computed from its readings alone,
\* whatever the readings of the other stations in the input.
C3_CrossStationIndependence ==
    Done =>
      \A s \in Stations :
        EventFacts(df_sorted, events, s)
          = EventFacts(DfSorted(OnlyStation(df, s)),
                       Events(DfSorted(OnlyStation(df, s))), s)

\* C4: every row of the events table is one maximal run of wet samples of
\* one station, and two wet samples of a station are members of the same
\* row exactly when no dry sample of the station lies between them.
C4_RowsAreMaximalRuns ==
    Done =>
      /\ \A k \in DOMAIN events :
            \E i, j \in DOMAIN df_sorted :
               /\ IsMaximalRun(df_sorted, i, j)
               /\ MembersOf(df_sorted, events[k])
                     = {df_sorted[n].idx : n \in i..j}
      /\ \A i, j \in DOMAIN df_sorted :
            (/\ i < j
             /\ df_sorted[i].AWS_ID = df_sorted[j].AWS_ID
             /\ df_sorted[i].Hourly_Rain > 0
             /\ df_sorted[j].Hourly_Rain > 0)
            => ((\E k \in DOMAIN events :
                    {df_sorted[i].idx, df_sorted[j].idx}
                       \subseteq MembersOf(df_sorted, events[k]))
                <=> (\A n \in i..j : df_sorted[n].Hourly_Rain > 0))

\* C5: within a station, an event of smaller id starts strictly earlier than
\* one of larger id, and ends before the other starts.
C5_EventIdMonotone ==
    Done =>
      \A a, b \in DOMAIN events :
        (events[a].AWS_ID = events[b].AWS_ID
           /\ events[a].EventID < events[b].EventID)
        => (events[a].Start < events[b].Start
              /\ events[a].End < events[b].Start)

(***************************************************************************)
(* Vocabulary of the claims about the event analyzer's events table.       *)
(***************************************************************************)
\* The rows of df_station in the n-th group of the events table.
AppMembersOf(fs, n) ==
    LET ids == {fs[i].event_id : i \in DOMAIN fs} \ {NoneId}
        keys == SortKeys({<<k>> : k \in ids}, 1)
    IN  {i \in DOMAIN fs : fs[i].event_id = keys[n][1]}

\* C6: the duration of every event is the number of its member samples, in
\* the dashboard (Duration_hrs) and in the event analyzer (duration_hours),
\* also with missing hours or duplicate timestamps.
C6_DurationIsSampleCount ==
    /\ Done =>
         \A k \in DOMAIN events :
            events[k].Duration_hrs
               = Cardinality(MembersOf(df_sorted, events[k]))
    /\ app_ran =>
         \A n \in DOMAIN app_events :
            app_events[n].duration_hours
               = Cardinality(AppMembersOf(app_df_station, n))

(***************************************************************************)
(* Vocabulary of the claims about the daily table: the readings as the     *)
(* uploaded file holds them.                                               *)
(***************************************************************************)
FileRows == uploaded_file[1]

Parsable(i) == FileRows[i].dt.hour # BadHour

\* The readings of station s on day d whose timestamp can be parsed.
ReadingsOn(s, d) ==
    {i \in DOMAIN FileRows :
        FileRows[i].AWS_ID = s /\ Parsable(i) /\ FileRows[i].dt.day = d}

\* The rainfall of reading i, 0 when the cell is not a number.
RainOf(i) ==
    IF FileRows[i].rain.num THEN FileRows[i].rain.v ELSE 0

RECURSIVE SumOver(_)
SumOver(S) ==
    IF S = {} THEN 0
    ELSE LET i == CHOOSE x \in S : TRUE IN RainOf(i) + SumOver(S \ {i})

DailyRowsOf(s, d) ==
    {k \in DOMAIN daily : daily[k].AWS_ID = s /\ daily[k].Date = d}

\* C7: the daily table has exactly one row for each station and date with a
\* reading whose timestamp can be parsed, none for any other, and the row
\* holds the sum, the maximum and the number of positive values of all the
\* readings of that station on that date.
C7_DailyOneRowPerStationDate ==
    Done =>
      \A s \in Stations, d \in 1..31 :
        IF ReadingsOn(s, d) = {}
        THEN DailyRowsOf(s, d) = {}
        ELSE /\ Cardinality(DailyRowsOf(s, d)) = 1
             /\ \A k \in DailyRowsOf(s, d) :
                  /\ daily[k].Daily_Rainfall = SumOver(ReadingsOn(s, d))
                  /\ daily[k].Max_Hourly_Rain
                        = MaxOf({RainOf(i) : i \in ReadingsOn(s, d)})
                  /\ daily[k].Hours_Rained
                        = Cardinality({i \in ReadingsOn(s, d) : RainOf(i) > 0})

(***************************************************************************)
(* Vocabulary of the claims about the queries.                             *)
(***************************************************************************)
\* `shown` is what a query with threshold t over `table` writes: the rows of
\* the table whose value is at least t, each once, and their number.
IsQueryResult(shown, table, column, t) ==
    /\ Len(shown) = 1
    /\ shown[1].threshold = t
    /\ \A k \in DOMAIN table :
          (table[k][column] >= t)
             <=> (\E n \in DOMAIN shown[1].table : shown[1].table[n] = table[k])
    /\ \A n \in DOMAIN shown[1].table :
          \E k \in DOMAIN table : shown[1].table[n] = table[k]
    /\ \A m, n \in DOMAIN shown[1].table :
          m # n => shown[1].table[m] # shown[1].table[n]
    /\ shown[1].count = Len(shown[1].table)

\* C8: in the run in which its button is pressed, each threshold query
\* (hourly rainfall, daily total in Tab 1 and Tab 2, event total, event
\* duration) shows exactly the rows of its table whose value is >= the
\* threshold and their number, and the tables are still those computed from
\* the uploaded file.
C8_ThresholdQueries ==
    Done =>
      /\ pressed = "Run Hourly Query"
            => IsQueryResult(page.hourly_q, df, "Hourly_Rain", pressed_value)
      /\ pressed = "Run Daily Query"
            => IsQueryResult(page.daily_q, daily, "Daily_Rainfall",
                             pressed_value)
      /\ pressed = "Run Event Duration Query"
            => IsQueryResult(page.duration_q, events, "Duration_hrs",
                             pressed_value)
      /\ pressed = "Show Daily Summary"
            => IsQueryResult(page.shown_daily, daily, "Daily_Rainfall",
                             pressed_value)
      /\ pressed = "Show Event Summary"
            => IsQueryResult(page.shown_events, events, "Total_Rain",
                             pressed_value)
      /\ pressed # NoButton
            => /\ df = Preprocess(FileRows)
               /\ daily = Daily(Preprocess(FileRows))
               /\ events = Events(DfSorted(Preprocess(FileRows)))

\* A run of the hourly query over a frame with a row at the threshold, which
\* is shown, and a row below it, which is not.
C8_Witness ==
    /\ Done
    /\ pressed = "Run Hourly Query"
    /\ \E i, j \in DOMAIN df :
          /\ df[i].Hourly_Rain = pressed_value
          /\ df[j].Hourly_Rain < pressed_value
          /\ \E n \in DOMAIN page.hourly_q[1].table :
                page.hourly_q[1].table[n] = df[i]
          /\ \A n \in DOMAIN page.hourly_q[1].table :
                page.hourly_q[1].table[n] # df[j]

\* C9: the high-intensity analysis shows exactly the events of the selected
\* station whose Average_Intensity is >= the threshold (the 5 mm/hr of line
\* 429), and the number it reports is the number of those events.
C9_IntenseEventsAtLeastThreshold ==
    (Done /\ analysis_choice = "High-Intensity and Maximum Rainfall Events")
    => /\ Len(page.intense) = 1
       /\ \A k \in DOMAIN events :
             (/\ events[k].AWS_ID = station_select
              /\ events[k].Total_Rain >= IntenseCut * events[k].Duration_hrs)
             <=> (\E n \in DOMAIN page.intense[1].table :
                     page.intense[1].table[n] = events[k])
       /\ page.intense[1].count
             = Cardinality({k \in DOMAIN events :
                   /\ events[k].AWS_ID = station_select
                   /\ events[k].Total_Rain
                         >= IntenseCut * events[k].Duration_hrs})

\* C10: the daily (event) summary on the page and its count are the filter of
\* the daily (events) table of the file now in the uploader by the threshold
\* shown with it.
C10_SummaryOfCurrentInput ==
    Done =>
      /\ page.shown_daily # <<>>
            => /\ page.shown_daily[1].table
                     = FilterGE(daily, "Daily_Rainfall",
                                page.shown_daily[1].threshold)
               /\ page.shown_daily[1].count = Len(page.shown_daily[1].table)
      /\ page.shown_events # <<>>
            => /\ page.shown_events[1].table
                     = FilterGE(events, "Total_Rain",
                                page.shown_events[1].threshold)
               /\ page.shown_events[1].count = Len(page.shown_events[1].table)

(***************************************************************************)
(* Claims about malformed input.                                           *)
(***************************************************************************)
\* The last run of the dashboard left nothing derived from its input: no
\* frame, no table, nothing on the page but the exception.
NothingDerived ==
    /\ df = <<>> /\ daily = <<>> /\ df_sorted = <<>> /\ events = <<>>
    /\ page.shown_daily = <<>> /\ page.shown_events = <<>>
    /\ page.hourly_q = <<>> /\ page.daily_q = <<>> /\ page.duration_q = <<>>
    /\ page.intense = <<>>

\* C11: when the file lacks the station column or the timestamp column
\* (AWS_ID, Date_&_Time in the dashboard; station_id, date, hour in the
\* analyzer), the run ends in an error shown to the user (st.error with
\* st.stop, or an uncaught KeyError), and no frame, daily table, events
\* table or filtered result is made or shown for that file.
C11_SchemaErrorIsFatal ==
    /\ (/\ uploaded_file # NoFile /\ ~pending
        /\ ~({"AWS_ID", "Date_&_Time"} \subseteq columns))
       => (page.exception /\ page.raised = "KeyError" /\ NothingDerived)
    /\ (app_ran /\ ~({"station_id", "date", "hour"} \subseteq app_columns))
       => /\ app_outcome \in {"st.error", "KeyError"}
          /\ app_df_station = <<>>
          /\ app_events = <<>>

\* A file without its station column has replaced a file whose daily summary
\* is still stored in st.session_state, and the run has ended in the error.
C11_Witness ==
    /\ uploaded_file # NoFile /\ ~pending
    /\ "AWS_ID" \notin columns
    /\ session_state.filtered_daily # <<>>
    /\ session_state.filtered_daily[1] # <<>>
    /\ page.exception

\* The rows of the analyzer's file, and those of them with a datetime.
AppFileRows == app_uploaded_file[1]
AppParsable(i) == AppFileRows[i].hour # BadHour

\* C12: a file with rows never ends a run in an error.  In the dashboard the
\* frame holds exactly the readings whose timestamp parses, each once, with
\* the rainfall of its cell or 0 when the cell is no number, and such a
\* reading is dry (RainFlag 0, in no event).  In the analyzer df_station
\* holds exactly the selected station's readings whose timestamp parses, and
\* a reading whose rainfall is no number is dry.
C12_RowProblemsNeverAbort ==
    /\ (uploaded_file # NoFile /\ ~pending /\ FileRows # <<>>)
       => /\ ~page.exception
          /\ \A i \in DOMAIN FileRows :
                Cardinality({k \in DOMAIN df : df[k].idx = i})
                   = (IF Parsable(i) THEN 1 ELSE 0)
          /\ \A k \in DOMAIN df : df[k].Hourly_Rain = RainOf(df[k].idx)
          /\ \A k \in DOMAIN df_sorted :
                /\ Parsable(df_sorted[k].idx)
                /\ ~FileRows[df_sorted[k].idx].rain.num
                      => (df_sorted[k].RainFlag = 0 /\ df_sorted[k].EventID = 0)
          /\ Len(df_sorted) = Len(df)
    /\ (app_ran /\ AppFileRows # <<>>)
       => /\ app_outcome = "events"
          /\ \A i \in DOMAIN AppFileRows :
                Cardinality({k \in DOMAIN app_df_station :
                                app_df_station[k].idx = i})
                   = (IF /\ AppParsable(i)
                         /\ AppFileRows[i].station_id = app_station
                      THEN 1 ELSE 0)
          /\ \A k \in DOMAIN app_df_station :
                ~AppFileRows[app_df_station[k].idx].rainfall.num
                   => app_df_station[k].rain_event = 0

\* C13: in every row of the daily table Daily_Intensity is 0 when
\* Hours_Rained is 0, and otherwise a ratio with a nonzero denominator for
\* which Daily_Intensity * Hours_Rained = Daily_Rainfall; in every row of
\* the events table Duration_hrs >= 1, and Average_Intensity is Total_Rain
\* over Duration_hrs.
C13_DivisionGuard ==
    Done =>
      /\ \A k \in DOMAIN daily :
            /\ daily[k].Daily_Intensity[2] # 0
            /\ IF daily[k].Hours_Rained = 0
               THEN daily[k].Daily_Intensity[1] = 0
               ELSE daily[k].Daily_Intensity[1] * daily[k].Hours_Rained
                       = daily[k].Daily_Rainfall * daily[k].Daily_Intensity[2]
      /\ \A k \in DOMAIN events :
            /\ events[k].Duration_hrs >= 1
            /\ events[k].Average_Intensity
                  = <<events[k].Total_Rain, events[k].Duration_hrs>>

\* A run whose daily table has a day without a wet hour and a day with one,
\* and whose events table has a row.
C13_Witness ==
    /\ Done
    /\ \E k \in DOMAIN daily : daily[k].Hours_Rained = 0
    /\ \E k \in DOMAIN daily : daily[k].Hours_Rained > 0
    /\ events # <<>>
====
